---------------------------- MODULE Spec2Model ----------------------------
(***************************************************************************)
(* A model of tap-zendesk's replication streams (tap_zendesk/streams.py)  *)
(* and of the loop that runs them (do_sync, tap_zendesk/__init__.py).      *)
(*                                                                         *)
(* Time.  A datetime is an integer number of ticks, Subsec ticks to the    *)
(* second, so that a datetime may carry a sub-second part (utils.now()     *)
(* does).  A string in DATETIME_FORMAT ("%Y-%m-%dT%H:%M:%SZ") has whole    *)
(* seconds only and is modelled by its number of seconds: strings of that  *)
(* one format compare as their seconds do.  Strftime truncates, Strptime   *)
(* is exact.                                                               *)
(*                                                                         *)
(* A behaviour is one run of one stream's sync generator, `cur`.  A step   *)
(* of a window stream that queries draws the response: its count, and, if  *)
(* the count is within the cap, the records the code then iterates.  A     *)
(* step of a child stream draws the next ticket of the listing and the     *)
(* outcome of its child fetch.                                             *)
(*                                                                         *)
(*   SpecBookmark  update_bookmark called with arbitrary candidates        *)
(*   SpecWindow    Users.sync and SatisfactionRatings.sync                 *)
(*   FairWindow    the same, every enabled step eventually taken           *)
(*   SpecChild     TicketAudits.sync, TicketMetrics.sync,                  *)
(*                 TicketComments.sync                                     *)
(*   SpecCursor    Organizations.sync, Tickets.sync                        *)
(*   SpecSnapshot  Groups.sync, Macros.sync, TicketFields.sync,            *)
(*                 TicketForms.sync, GroupMemberships.sync                 *)
(*   SpecStreams   the sync of any one stream, Tags.sync and               *)
(*                 SLAPolicies.sync included                               *)
(*   SpecRun       do_sync over a catalog, each stream's sync taken as one *)
(*                 step that ends normally or with one of its exceptions   *)
(***************************************************************************)
EXTENDS Integers, Sequences, FiniteSets, TLC

\* ---- bounds of the model ------------------------------------------------
Subsec == 2
MaxBookmark == 2
MaxTime == 3
MaxWindow == 3
MaxRecs == 2
MaxRewind == 2
MaxIds == 2
MaxTickets == 3
MaxChildren == 2
MaxCatalog == 3

\* ---- program constants --------------------------------------------------
DEFAULT_SEARCH_WINDOW_SIZE == 2592000
UsersCap == 1000
RatingsCap == 50000
MaxRetries == 60
SafetyMarginSeconds == 60

\* ---- datetimes and their strings ----------------------------------------
Seconds(n) == n * Subsec

Strftime(dt) == dt \div Subsec

Strptime(s) == s * Subsec

\* min that returns its first argument
MinFirst(a, b) == a

Min(a, b) == IF a <= b THEN a ELSE b

\* The value update_bookmark is given: a DATETIME_FORMAT string (its seconds)
\* or an empty value (None, ""), which Python's `if value` rejects.
Empty == << >>
Str(s) == << s >>
IsEmpty(v) == v = Empty
SecondsOf(v) == v[1]

\* ---- the streams --------------------------------------------------------
WindowStreams == {"users", "satisfaction_ratings"}
ChildStreams == {"ticket_audits", "ticket_metrics", "ticket_comments"}
CursorStreams == {"organizations", "tickets"}
SnapshotStreams == {"groups", "macros", "ticket_fields", "ticket_forms",
                    "group_memberships"}
IncrementalStreams == WindowStreams \cup ChildStreams \cup CursorStreams
                        \cup SnapshotStreams

\* STREAMS: the streams without a replication key
FullTableStreams == {"tags", "sla_policies"}

VARIABLES
    cur,                          \* the stream whose sync runs (self.name)
    state,                        \* stream |-> its bookmark string (seconds)
    pc,                           \* where the running sync stands
    err,                          \* the exception that ended the sync, or "none"
    emit,                         \* the record the last step yielded, if any
    yielded,                      \* records yielded since the window began
    wrote,                        \* the last step called singer.write_state
    saved,                        \* the state singer.write_state wrote last
    query,                        \* the bounds of the last search request
    response,                     \* what it answered: its count, and whether a
                                  \* record of it lies before the window start
    original_search_window_size,
    search_window_size,
    bookmark,                     \* the sync's local `bookmark` (a datetime)
    start,
    end,
    sync_end,
    num_retries,
    records,                      \* the window's records still to be scanned
    ticket,                       \* the parent ticket of the current loop turn
    ticket_count,
    ids,                          \* the ticket ids already expanded in this run
    children,                     \* child records of `ticket` still to push
    fetches,                      \* the tickets a child fetch was issued for
    listed,                       \* the ids of the tickets the listing returned
    value,                        \* the candidate CallUpdateBookmark passed
    record,                       \* the record of a cursor stream's loop turn
    emitted,                      \* the ids a cursor stream yielded in this run
    covered,                      \* the seconds of the run's range that lie in
                                  \* the emit range of a validated window
    catalog,                      \* do_sync: the streams still to sync
    synced,                       \* do_sync: the streams sync_stream was called
                                  \* for, each with how its sync ended
    scanned                       \* the updated_at of the records a snapshot
                                  \* stream has scanned, in the listing's order

winvars == << original_search_window_size, search_window_size, bookmark,
              start, end, sync_end, num_retries, records, query, response >>

childvars == << ticket, ticket_count, ids, children, fetches, listed >>

cursorvars == << record, emitted >>

runvars == << catalog, synced >>

vars == << cur, state, pc, err, emit, yielded, wrote, saved, winvars, childvars,
          value, cursorvars, covered, runvars, scanned >>

\* ---- Stream.get_bookmark / Stream.update_bookmark -----------------------
get_bookmark(st, name) == Strptime(st[name])

\* update_bookmark without the `> current_bookmark` test of line 74
update_bookmark_unguarded(st, name, v) ==
    IF ~IsEmpty(v)
    THEN [st EXCEPT ![name] = Strftime(Strptime(SecondsOf(v)) + Seconds(1))]
    ELSE st

\* update_bookmark adding two seconds instead of one
update_bookmark_skips(st, name, v) ==
    IF ~IsEmpty(v) /\ Strptime(SecondsOf(v)) > get_bookmark(st, name)
    THEN [st EXCEPT ![name] = Strftime(Strptime(SecondsOf(v)) + Seconds(2))]
    ELSE st

update_bookmark(st, name, v) ==
    IF ~IsEmpty(v) /\ Strptime(SecondsOf(v)) > get_bookmark(st, name)
    THEN [st EXCEPT ![name] = Strftime(Strptime(SecondsOf(v)) + Seconds(1))]
    ELSE st

\* ---- inputs -------------------------------------------------------------
\* config['search_window_size'], or the default when it is absent
WindowSizes == (1 .. MaxWindow) \cup {DEFAULT_SEARCH_WINDOW_SIZE}

\* the bookmark every stream starts a run with (seconds)
StartBookmarks == 1 .. MaxBookmark

\* utils.now(): a datetime with a sub-second part
Nows == { Seconds(SafetyMarginSeconds) + t :
            t \in Seconds(MaxTime) .. (Seconds(MaxTime) + Subsec - 1) }

\* updated_at of the records a search for [lo, hi] may return (DATETIME_FORMAT
\* strings): at either bound of the request and one second outside of it
RecTimes(lo, hi) == {lo - 1, lo, hi, hi + 1}

RECURSIVE SeqsUpTo(_, _)
SeqsUpTo(S, n) ==
    IF n = 0 THEN { << >> }
    ELSE LET shorter == SeqsUpTo(S, n - 1)
         IN  shorter \cup { Append(q, x) : q \in shorter, x \in S }

Responses(lo, hi) == SeqsUpTo(RecTimes(lo, hi), MaxRecs)

UsersCounts == {UsersCap, UsersCap + 1, UsersCap + 500}
RatingsCounts == {RatingsCap, RatingsCap + 1}

NoQuery == << >>
NoResponse == [count |-> 0, stale |-> FALSE]

InitialState(b0) == [s \in IncrementalStreams |-> b0]

\* The locals of the streams that do not run.
NoTicket == [id |-> 0, status |-> "none", generated_timestamp |-> 0]

ChildIdle ==
    /\ ticket = NoTicket /\ ticket_count = 0 /\ ids = << >>
    /\ children = 0 /\ fetches = << >> /\ listed = << >>
    /\ value = Empty

WindowIdle ==
    /\ original_search_window_size = 0 /\ search_window_size = 0
    /\ bookmark = 0 /\ start = 0 /\ end = 0 /\ sync_end = 0
    /\ num_retries = 0 /\ records = << >>
    /\ query = NoQuery /\ response = NoResponse
    /\ covered = {}

NoRecord == [id |-> 0, t |-> 0]

CursorIdle == record = NoRecord /\ emitted = << >>

RunIdle == catalog = << >> /\ synced = << >>

SnapshotIdle == scanned = << >>

\* What a step that yields nothing and writes no state leaves behind.
Quiet == emit' = << >> /\ wrote' = FALSE

\* ---- Users.sync ---------------------------------------------------------
\* lines 171-180: the locals before the loop
UsersBegin(cfg, now) ==
    /\ original_search_window_size = cfg
    /\ search_window_size = cfg
    /\ bookmark = get_bookmark(state, "users")
    /\ start = get_bookmark(state, "users") - Seconds(1)
    /\ end = get_bookmark(state, "users") - Seconds(1) + Seconds(cfg)
    /\ sync_end = now - Seconds(SafetyMarginSeconds)
    /\ num_retries = 0

\* line 181: while start < sync_end
InLoop == start < sync_end

\* lines 182-183
parsed_start == Strftime(start)
UsersParsedEnd == Min(Strftime(end), Strftime(sync_end))

\* line 190
UsersOverCap(count) == count > UsersCap

\* line 191
UsersCanShrink(size) == size > 1

\* halving that rounds up
HalveWindowUp(size) == (size + 1) \div 2

\* lines 192, 354
HalveWindow(size) == size \div 2

\* the consistency check left out
UsersConsistentAlways(pstart, users) == TRUE

\* line 202: all(parsed_start <= user.updated_at for user in users)
UsersConsistent(pstart, users) ==
    \A i \in 1 .. Len(users) : pstart <= users[i]

\* one retry too many
CanRetryOnceMore(n) == n <= MaxRetries

\* line 204
CanRetry(n) == n < MaxRetries

\* the emit test without its upper bound
InWindowNoUpper(pstart, t, pend) == pstart <= t

\* the emit test with its upper bound left out of the range
InWindowHalfOpen(pstart, t, pend) == pstart <= t /\ t < pend

\* lines 215, 365
InWindow(pstart, t, pend) == pstart <= t /\ t <= pend

\* doubling without the test against half the original size
GrowWindowAlways(size, orig) == size * 2

\* lines 221-222, 367-368
GrowWindow(size, orig) == IF size <= orig \div 2 THEN size * 2 ELSE size

\* lines 224, 372
NextStart(e) == e - Seconds(1)

\* lines 173-174, 331-334: the start of a sync's first window, from the
\* bookmark it reads
FirstStart(stream, bm) == IF stream = "users" THEN bm - Seconds(1) ELSE bm

\* the whole seconds of the run, from its first window start to its sync end
RunRange == Strftime(FirstStart(cur, bookmark)) .. Strftime(sync_end)

\* lines 215, 365: the seconds a window's emit test lets through, within the
\* run's range
EmitRange(pstart, pend) == { t \in RunRange : InWindow(pstart, t, pend) }

\* whether a record of the response lies before the window start
Stale(pstart, recs) == \E i \in 1 .. Len(recs) : recs[i] < pstart

\* line 185: the search request of this iteration
UsersQuery(count, users) ==
    /\ cur = "users" /\ pc = "loop" /\ InLoop
    /\ query' = << parsed_start, UsersParsedEnd >>
    /\ response' = [count |-> count, stale |-> Stale(parsed_start, users)]

\* lines 190-195: over the cap, the window can shrink: halve it and query again
UsersHalve(count) ==
    /\ UsersQuery(count, << >>)
    /\ UsersOverCap(count) /\ UsersCanShrink(search_window_size)
    /\ search_window_size' = HalveWindow(search_window_size)
    /\ end' = start + Seconds(HalveWindow(search_window_size))
    /\ Quiet
    /\ UNCHANGED << value, scanned, runvars, cursorvars, covered,
                    childvars, cur, state, pc, err, yielded, saved,
                    original_search_window_size, bookmark, start, sync_end,
                    num_retries, records >>

\* lines 190-197: over the cap at the one-second window: raise Exception
UsersCapacityError(count) ==
    /\ UsersQuery(count, << >>)
    /\ UsersOverCap(count) /\ ~UsersCanShrink(search_window_size)
    /\ pc' = "fatal" /\ err' = "capacity"
    /\ Quiet
    /\ UNCHANGED << value, scanned, runvars, cursorvars, covered,
                    childvars, cur, state, yielded, saved,
                    original_search_window_size, search_window_size, bookmark,
                    start, end, sync_end, num_retries, records >>

\* lines 200-208: a record before the window start, retries left: query again
UsersRetry(count, users) ==
    /\ UsersQuery(count, users)
    /\ ~UsersOverCap(count)
    /\ ~UsersConsistent(parsed_start, users) /\ CanRetry(num_retries)
    /\ num_retries' = num_retries + 1
    /\ Quiet
    /\ UNCHANGED << value, scanned, runvars, cursorvars, covered,
                    childvars, cur, state, pc, err, yielded, saved,
                    original_search_window_size, search_window_size, bookmark,
                    start, end, sync_end, records >>

\* lines 200-210: a record before the window start, no retry left: AssertionError
UsersConsistencyError(count, users) ==
    /\ UsersQuery(count, users)
    /\ ~UsersOverCap(count)
    /\ ~UsersConsistent(parsed_start, users) /\ ~CanRetry(num_retries)
    /\ pc' = "fatal" /\ err' = "consistency"
    /\ Quiet
    /\ UNCHANGED << value, scanned, runvars, cursorvars, covered,
                    childvars, cur, state, yielded, saved,
                    original_search_window_size, search_window_size, bookmark,
                    start, end, sync_end, num_retries, records >>

\* lines 200-213: the window passed both checks
UsersValidated(count, users) ==
    /\ UsersQuery(count, users)
    /\ ~UsersOverCap(count)
    /\ UsersConsistent(parsed_start, users)
    /\ num_retries' = 0
    /\ records' = users
    /\ pc' = "emit"
    /\ Quiet
    /\ UNCHANGED << value, scanned, runvars, cursorvars, covered,
                    childvars, cur, state, err, yielded, saved,
                    original_search_window_size, search_window_size, bookmark,
                    start, end, sync_end >>

\* lines 214-216: one turn of `for user in users`
UsersEmit ==
    /\ cur = "users" /\ pc = "emit" /\ records # << >>
    /\ LET t == Head(records) IN
         IF InWindow(parsed_start, t, UsersParsedEnd)
         THEN emit' = << t >> /\ yielded' = yielded + 1
         ELSE emit' = << >> /\ yielded' = yielded
    /\ records' = Tail(records)
    /\ wrote' = FALSE
    /\ UNCHANGED << value, scanned, runvars, cursorvars, covered,
                    childvars, cur, state, pc, err, saved,
                    original_search_window_size, search_window_size, bookmark,
                    start, end, sync_end, num_retries, query, response >>

\* lines 217-225: bookmark, checkpoint, regrow the window, next window
UsersWindowDone ==
    /\ cur = "users" /\ pc = "emit" /\ records = << >>
    /\ state' = update_bookmark(state, "users", Str(UsersParsedEnd))
    /\ saved' = state' /\ wrote' = TRUE
    /\ search_window_size' =
           GrowWindow(search_window_size, original_search_window_size)
    /\ start' = NextStart(end)
    /\ end' = NextStart(end) + Seconds(GrowWindow(search_window_size,
                                               original_search_window_size))
    /\ pc' = "loop"
    /\ emit' = << >> /\ yielded' = 0
    /\ covered' = covered \cup EmitRange(parsed_start, UsersParsedEnd)
    /\ UNCHANGED << value, scanned, runvars, cursorvars,
                    childvars, cur, err, original_search_window_size,
                    bookmark, sync_end, num_retries, records, query,
                    response >>

\* line 181: the loop's condition fails, the generator is exhausted
UsersDone ==
    /\ cur = "users" /\ pc = "loop" /\ ~InLoop
    /\ pc' = "done"
    /\ Quiet
    /\ UNCHANGED << value, scanned, runvars, cursorvars, covered,
                    childvars, cur, state, err, yielded, saved,
                    winvars >>

\* the records the search of this iteration may return
UsersResponses == Responses(parsed_start, UsersParsedEnd)

UsersNext ==
    \/ \E count \in UsersCounts : UsersHalve(count)
    \/ \E count \in UsersCounts : UsersCapacityError(count)
    \/ \E count \in UsersCounts, users \in UsersResponses :
           UsersRetry(count, users)
    \/ \E count \in UsersCounts, users \in UsersResponses :
           UsersConsistencyError(count, users)
    \/ \E count \in UsersCounts, users \in UsersResponses :
           UsersValidated(count, users)
    \/ UsersEmit
    \/ UsersWindowDone
    \/ UsersDone

\* ---- SatisfactionRatings.sync -------------------------------------------
\* lines 331-338: the locals before the loop
RatingsBegin(cfg, now) ==
    /\ bookmark = get_bookmark(state, "satisfaction_ratings")
    /\ original_search_window_size = cfg
    /\ search_window_size = cfg
    /\ start = get_bookmark(state, "satisfaction_ratings")
    /\ end = get_bookmark(state, "satisfaction_ratings") + Seconds(cfg)
    /\ sync_end = now - Seconds(SafetyMarginSeconds)
    /\ num_retries = 0

\* lines 341-344: int(dt.strftime('%s')) and singer.strftime(dt, DATETIME_FORMAT)
\* both drop the sub-second part
epoch_start == Strftime(start)
epoch_end == Strftime(end)
epoch_sync_end == Strftime(sync_end)
parsed_end == Strftime(end)

\* line 353
RatingsOverCap(count) == count > RatingsCap

\* line 360: bookmark < strptime(updated_at) <= end
RatingsAdvances(bm, t, e) == bm < Strptime(t) /\ Strptime(t) <= e

\* Python's datetime stops at datetime.min and raises OverflowError below it;
\* the model's time line stops MaxRewind seconds before its zero.
DatetimeMin == 0 - Seconds(MaxRewind)

\* lines 347-348: the request of this iteration
RatingsQuery(count, ratings) ==
    /\ cur = "satisfaction_ratings" /\ pc = "loop" /\ InLoop
    /\ query' = << epoch_start, Min(epoch_end, epoch_sync_end) >>
    /\ response' = [count |-> count, stale |-> Stale(parsed_start, ratings)]

\* lines 353-357: over the cap: halve the window and query again
RatingsHalve(count) ==
    /\ RatingsQuery(count, << >>)
    /\ RatingsOverCap(count)
    /\ search_window_size' = HalveWindow(search_window_size)
    /\ end' = start + Seconds(HalveWindow(search_window_size))
    /\ Quiet
    /\ UNCHANGED << value, scanned, runvars, cursorvars, covered,
                    childvars, cur, state, pc, err, yielded, saved,
                    original_search_window_size, bookmark, start, sync_end,
                    num_retries, records >>

\* lines 353, 358: within the cap: iterate the response
RatingsFetched(count, ratings) ==
    /\ RatingsQuery(count, ratings)
    /\ ~RatingsOverCap(count)
    /\ records' = ratings
    /\ pc' = "scan"
    /\ Quiet
    /\ UNCHANGED << value, scanned, runvars, cursorvars, covered,
                    childvars, cur, state, err, yielded, saved,
                    original_search_window_size, search_window_size, bookmark,
                    start, end, sync_end, num_retries >>

\* line 359: the assert fails on a record before the window start
RatingsAssertionError ==
    /\ cur = "satisfaction_ratings" /\ pc = "scan" /\ records # << >>
    /\ ~(parsed_start <= Head(records))
    /\ pc' = "fatal" /\ err' = "assertion"
    /\ Quiet
    /\ UNCHANGED << value, scanned, runvars, cursorvars, covered,
                    childvars, cur, state, yielded, saved, winvars >>

\* lines 359-366: one turn of `for satisfaction_rating in satisfaction_ratings`
RatingsScan ==
    /\ cur = "satisfaction_ratings" /\ pc = "scan" /\ records # << >>
    /\ parsed_start <= Head(records)
    /\ LET t == Head(records) IN
         /\ state' = IF RatingsAdvances(bookmark, t, end)
                     THEN update_bookmark(state, "satisfaction_ratings", Str(t))
                     ELSE state
         /\ IF InWindow(parsed_start, t, parsed_end)
            THEN emit' = << t >> /\ yielded' = yielded + 1
            ELSE emit' = << >> /\ yielded' = yielded
    /\ records' = Tail(records)
    /\ wrote' = FALSE
    /\ UNCHANGED << value, scanned, runvars, cursorvars, covered,
                    childvars, cur, pc, err, saved,
                    original_search_window_size, search_window_size, bookmark,
                    start, end, sync_end, num_retries, query, response >>

\* lines 367-373: regrow the window, checkpoint, next window
RatingsWindowDone ==
    /\ cur = "satisfaction_ratings" /\ pc = "scan" /\ records = << >>
    /\ NextStart(end) >= DatetimeMin
    /\ search_window_size' =
           GrowWindow(search_window_size, original_search_window_size)
    /\ saved' = state /\ wrote' = TRUE
    /\ start' = NextStart(end)
    /\ end' = NextStart(end) + Seconds(GrowWindow(search_window_size,
                                               original_search_window_size))
    /\ pc' = "loop"
    /\ emit' = << >> /\ yielded' = 0
    /\ covered' = covered \cup EmitRange(parsed_start, parsed_end)
    /\ UNCHANGED << value, scanned, runvars, cursorvars,
                    childvars, cur, state, err,
                    original_search_window_size, bookmark, sync_end,
                    num_retries, records, query, response >>

\* lines 367-372: as above, but end - 1s falls below datetime.min: OverflowError
RatingsOverflowError ==
    /\ cur = "satisfaction_ratings" /\ pc = "scan" /\ records = << >>
    /\ NextStart(end) < DatetimeMin
    /\ search_window_size' =
           GrowWindow(search_window_size, original_search_window_size)
    /\ saved' = state /\ wrote' = TRUE
    /\ pc' = "fatal" /\ err' = "overflow"
    /\ emit' = << >>
    /\ covered' = covered \cup EmitRange(parsed_start, parsed_end)
    /\ UNCHANGED << value, scanned, runvars, cursorvars,
                    childvars, cur, state, yielded,
                    original_search_window_size, bookmark, start, end,
                    sync_end, num_retries, records, query, response >>

\* line 340: the loop's condition fails, the generator is exhausted
RatingsDone ==
    /\ cur = "satisfaction_ratings" /\ pc = "loop" /\ ~InLoop
    /\ pc' = "done"
    /\ Quiet
    /\ UNCHANGED << value, scanned, runvars, cursorvars, covered,
                    childvars, cur, state, err, yielded, saved,
                    winvars >>

\* the records the request of this iteration may return
RatingsResponses == Responses(epoch_start, Min(epoch_end, epoch_sync_end))

RatingsNext ==
    \/ \E count \in RatingsCounts : RatingsHalve(count)
    \/ \E count \in RatingsCounts, ratings \in RatingsResponses :
           RatingsFetched(count, ratings)
    \/ RatingsAssertionError
    \/ RatingsScan
    \/ RatingsWindowDone
    \/ RatingsOverflowError
    \/ RatingsDone

\* ---- the adaptive-window streams, one sync per behaviour ----------------
InitWindow ==
    \E s \in WindowStreams, b0 \in StartBookmarks,
       cfg \in WindowSizes, now \in Nows :
        /\ cur = s
        /\ state = InitialState(b0)
        /\ saved = InitialState(b0)
        /\ pc = "loop" /\ err = "none"
        /\ emit = << >> /\ yielded = 0 /\ wrote = FALSE
        /\ query = NoQuery /\ response = NoResponse /\ records = << >>
        /\ IF s = "users" THEN UsersBegin(cfg, now) ELSE RatingsBegin(cfg, now)
        /\ covered = {}
        /\ ChildIdle /\ CursorIdle /\ SnapshotIdle /\ RunIdle

NextWindow == UsersNext \/ RatingsNext

SpecWindow == InitWindow /\ [][NextWindow]_vars

\* ---- the child-expansion streams ----------------------------------------
\* the tickets client.tickets.incremental may return, one per loop turn
TicketIds == 1 .. MaxIds
TicketStatuses == {"open", "deleted"}
\* generated_timestamp: epoch seconds, on the model's time line
TicketTimes == 1 .. (MaxBookmark + 1)
Tickets == [id : TicketIds, status : TicketStatuses,
            generated_timestamp : TicketTimes]

Contains(seq, x) == \E i \in 1 .. Len(seq) : seq[i] = x

\* the condition without the `not in ids` test
ExpandsTicketAgain(stream, t, seen) ==
    IF stream = "ticket_metrics"
    THEN TRUE
    ELSE t.status # "deleted"

\* lines 272, 294, 318: the condition under which a ticket's children are fetched
ExpandsTicket(stream, t, seen) ==
    IF stream = "ticket_metrics"
    THEN ~Contains(seen, t.id)
    ELSE t.status # "deleted" /\ ~Contains(seen, t.id)

\* lines 296-300: only TicketMetrics.sync wraps the fetch in try/except
CatchesFetchError(stream) == stream = "ticket_metrics"

\* lines 273-275, 297, 319-321: the number of child records a fetch may return
ChildCounts(stream) ==
    IF stream = "ticket_metrics" THEN {1} ELSE 0 .. MaxChildren

\* line 237: utcfromtimestamp(generated_timestamp) + timedelta(seconds=1),
\* line 238: as a string
ChildBookmarkValue(generated_timestamp) ==
    Str(Strftime(Seconds(generated_timestamp) + Seconds(1)))

\* push_ticket_child writing the bookmark of the parent stream
push_ticket_child_parent(st, stream, t) ==
    update_bookmark(st, "tickets", ChildBookmarkValue(t.generated_timestamp))

\* lines 233-239: Tickets.push_ticket_child, the bookmark it leaves
push_ticket_child(st, stream, t) ==
    update_bookmark(st, stream, ChildBookmarkValue(t.generated_timestamp))

Listing == cur \in ChildStreams /\ pc = "list" /\ ticket_count < MaxTickets

\* lines 268-277, 290-301, 314-323: a ticket that is not expanded
ChildSkip(t) ==
    /\ Listing
    /\ ~ExpandsTicket(cur, t, ids)
    /\ ticket' = t /\ listed' = Append(listed, t.id)
    /\ ticket_count' = ticket_count + 1
    /\ Quiet
    /\ UNCHANGED << value, scanned, runvars, cursorvars, covered,
                    winvars, cur, state, pc, err, yielded, saved, ids,
                    children, fetches >>

\* lines 273-274, 295-297, 319-320: the child fetch is issued and answers
ChildFetch(t, n) ==
    /\ Listing
    /\ ExpandsTicket(cur, t, ids)
    /\ ticket' = t /\ listed' = Append(listed, t.id)
    /\ ids' = Append(ids, t.id)
    /\ fetches' = Append(fetches, [id |-> t.id, status |-> t.status])
    /\ children' = n
    /\ pc' = "push"
    /\ Quiet
    /\ UNCHANGED << value, scanned, runvars, cursorvars, covered,
                    winvars, cur, state, err, yielded, saved,
                    ticket_count >>

\* lines 296-301: the child fetch raises and TicketMetrics.sync logs it
ChildFetchRecovered(t) ==
    /\ Listing
    /\ ExpandsTicket(cur, t, ids)
    /\ CatchesFetchError(cur)
    /\ ticket' = t /\ listed' = Append(listed, t.id)
    /\ ids' = Append(ids, t.id)
    /\ fetches' = Append(fetches, [id |-> t.id, status |-> t.status])
    /\ ticket_count' = ticket_count + 1
    /\ Quiet
    /\ UNCHANGED << value, scanned, runvars, cursorvars, covered,
                    winvars, cur, state, pc, err, yielded, saved,
                    children >>

\* lines 273-276, 319-322: the child fetch raises and nothing catches it
ChildFetchError(t) ==
    /\ Listing
    /\ ExpandsTicket(cur, t, ids)
    /\ ~CatchesFetchError(cur)
    /\ ticket' = t /\ listed' = Append(listed, t.id)
    /\ fetches' = Append(fetches, [id |-> t.id, status |-> t.status])
    /\ pc' = "fatal" /\ err' = "child_fetch"
    /\ Quiet
    /\ UNCHANGED << value, scanned, runvars, cursorvars, covered,
                    winvars, cur, state, yielded, saved, ticket_count,
                    ids, children >>

\* lines 275-276, 298, 321-322: one child record through push_ticket_child
ChildPush ==
    /\ cur \in ChildStreams /\ pc = "push" /\ children > 0
    /\ state' = push_ticket_child(state, cur, ticket)
    /\ emit' = << ticket.generated_timestamp >>
    /\ yielded' = yielded + 1
    /\ children' = children - 1
    /\ wrote' = FALSE
    /\ UNCHANGED << value, scanned, runvars, cursorvars, covered,
                    winvars, cur, pc, err, saved, ticket, ticket_count,
                    ids, fetches, listed >>

\* lines 277, 301, 323: the ticket's children are through, next ticket
ChildTicketDone ==
    /\ cur \in ChildStreams /\ pc = "push" /\ children = 0
    /\ ticket_count' = ticket_count + 1
    /\ pc' = "list"
    /\ Quiet
    /\ UNCHANGED << value, scanned, runvars, cursorvars, covered,
                    winvars, cur, state, err, yielded, saved, ticket,
                    ids, children, fetches, listed >>

\* lines 268, 290, 314: the listing is exhausted
ChildDone ==
    /\ cur \in ChildStreams /\ pc = "list"
    /\ pc' = "done"
    /\ Quiet
    /\ UNCHANGED << value, scanned, runvars, cursorvars, covered,
                    winvars, cur, state, err, yielded, saved,
                    childvars >>

InitChild ==
    \E s \in ChildStreams, b0 \in StartBookmarks :
        /\ cur = s
        /\ state = InitialState(b0)
        /\ saved = InitialState(b0)
        /\ pc = "list" /\ err = "none"
        /\ emit = << >> /\ yielded = 0 /\ wrote = FALSE
        /\ ChildIdle /\ CursorIdle /\ SnapshotIdle /\ RunIdle
        /\ WindowIdle

NextChild ==
    \/ \E t \in Tickets : ChildSkip(t)
    \/ \E t \in Tickets, n \in ChildCounts(cur) : ChildFetch(t, n)
    \/ \E t \in Tickets : ChildFetchRecovered(t)
    \/ \E t \in Tickets : ChildFetchError(t)
    \/ ChildPush
    \/ ChildTicketDone
    \/ ChildDone

SpecChild == InitChild /\ [][NextChild]_vars

\* ---- the cursor streams: Organizations.sync, Tickets.sync ------------------
\* the records an incremental listing may return, one per loop turn: an id
\* and the replication key (organizations: updated_at, a DATETIME_FORMAT
\* string; tickets: generated_timestamp, epoch seconds)
CursorRecords == [id : TicketIds, t : TicketTimes]

\* lines 149-150: strptime(updated_at) + timedelta(seconds=1), as a string
OrganizationBookmarkValue(updated_at) ==
    Str(Strftime(Strptime(updated_at) + Seconds(1)))

\* lines 247-248: utcfromtimestamp(generated_timestamp) + timedelta(seconds=1),
\* as a string
TicketBookmarkValue(generated_timestamp) ==
    Str(Strftime(Seconds(generated_timestamp) + Seconds(1)))

\* line 250: ticket["id"] not in ids
TicketIsNew(id, seen) == ~Contains(seen, id)

CursorListing == pc = "list" /\ Len(listed) < MaxTickets

\* lines 148-151: one turn of `for organization in organizations`
OrganizationsRecord(r) ==
    /\ cur = "organizations" /\ CursorListing
    /\ record' = r /\ listed' = Append(listed, r.id)
    /\ state' = update_bookmark(state, "organizations",
                                OrganizationBookmarkValue(r.t))
    /\ emit' = << r.t >> /\ emitted' = Append(emitted, r.id)
    /\ yielded' = yielded + 1
    /\ wrote' = FALSE
    /\ UNCHANGED << value, scanned, runvars, covered, winvars, cur, pc, err, saved,
                    ticket, ticket_count, ids, children, fetches >>

\* lines 246-254: one turn of `for ticket in tickets`
TicketsRecord(r) ==
    /\ cur = "tickets" /\ CursorListing
    /\ record' = r /\ listed' = Append(listed, r.id)
    /\ state' = update_bookmark(state, "tickets", TicketBookmarkValue(r.t))
    /\ IF TicketIsNew(r.id, ids)
       THEN /\ ids' = Append(ids, r.id)
            /\ emit' = << r.t >> /\ emitted' = Append(emitted, r.id)
            /\ yielded' = yielded + 1
       ELSE /\ emit' = << >>
            /\ UNCHANGED << ids, emitted, yielded >>
    /\ wrote' = FALSE
    /\ UNCHANGED << value, scanned, runvars, covered, winvars, cur, pc, err, saved,
                    ticket, ticket_count, children, fetches >>

\* lines 148, 246: the listing is exhausted
CursorDone ==
    /\ cur \in CursorStreams /\ pc = "list"
    /\ pc' = "done"
    /\ Quiet
    /\ UNCHANGED << value, scanned, runvars, cursorvars, covered, winvars, childvars,
                    cur, state, err, yielded, saved >>

InitCursor ==
    \E s \in CursorStreams, b0 \in StartBookmarks :
        /\ cur = s
        /\ state = InitialState(b0)
        /\ saved = InitialState(b0)
        /\ pc = "list" /\ err = "none"
        /\ emit = << >> /\ yielded = 0 /\ wrote = FALSE
        /\ ChildIdle /\ CursorIdle /\ SnapshotIdle /\ RunIdle
        /\ WindowIdle

NextCursor ==
    \/ \E r \in CursorRecords : OrganizationsRecord(r)
    \/ \E r \in CursorRecords : TicketsRecord(r)
    \/ CursorDone

SpecCursor == InitCursor /\ [][NextCursor]_vars

\* ---- the snapshot streams: Groups.sync, Macros.sync, TicketFields.sync, ---
\* ---- TicketForms.sync, GroupMemberships.sync -----------------------------
\* updated_at of the records a full listing may return (DATETIME_FORMAT
\* strings); a group membership may come without one, and without an id
SnapshotTimes == 0 .. (MaxBookmark + 2)

SnapshotRecords(stream) ==
    IF stream = "group_memberships"
    THEN [updated_at : {Str(t) : t \in SnapshotTimes} \cup {Empty},
          id : 0 .. 1]
    ELSE [updated_at : {Str(t) : t \in SnapshotTimes}, id : {1}]

\* lines 386, 404, 435, 453, 473: strptime(updated_at) >= bookmark
AtOrAfterBookmark(updated_at, bm) == Strptime(SecondsOf(updated_at)) >= bm

SnapshotListing == pc = "list" /\ Len(scanned) < MaxTickets

\* what a turn that filters on updated_at does with the record (lines 386-391)
SnapshotFiltered(r) ==
    IF AtOrAfterBookmark(r.updated_at, bookmark)
    THEN /\ state' = update_bookmark(state, cur, r.updated_at)
         /\ emit' = << r.updated_at >> /\ yielded' = yielded + 1
    ELSE /\ emit' = << >>
         /\ UNCHANGED << state, yielded >>

\* lines 385-391, 403-409, 434-440, 452-458: one turn of the loop over the
\* listing
SnapshotRecord(r) ==
    /\ cur \in SnapshotStreams \ {"group_memberships"} /\ SnapshotListing
    /\ scanned' = Append(scanned, r.updated_at)
    /\ SnapshotFiltered(r)
    /\ wrote' = FALSE
    /\ UNCHANGED << value, runvars, cursorvars, covered, winvars, childvars,
                    cur, pc, err, saved >>

\* lines 470-485: one turn of `for membership in memberships`
GroupMembershipsRecord(r) ==
    /\ cur = "group_memberships" /\ SnapshotListing
    /\ scanned' = Append(scanned, r.updated_at)
    /\ IF ~IsEmpty(r.updated_at)
       THEN SnapshotFiltered(r)
       ELSE /\ IF r.id # 0
               THEN emit' = << r.updated_at >> /\ yielded' = yielded + 1
               ELSE emit' = << >> /\ yielded' = yielded
            /\ state' = state
    /\ wrote' = FALSE
    /\ UNCHANGED << value, runvars, cursorvars, covered, winvars, childvars,
                    cur, pc, err, saved >>

\* lines 385, 403, 434, 452, 470: the listing is exhausted
SnapshotDone ==
    /\ cur \in SnapshotStreams /\ pc = "list"
    /\ pc' = "done"
    /\ Quiet
    /\ UNCHANGED << value, scanned, runvars, cursorvars, covered, winvars,
                    childvars, cur, state, err, yielded, saved >>

\* lines 382, 400, 431, 449, 467: bookmark = self.get_bookmark(state)
InitSnapshot ==
    \E s \in SnapshotStreams, b0 \in StartBookmarks :
        /\ cur = s
        /\ state = InitialState(b0)
        /\ saved = InitialState(b0)
        /\ pc = "list" /\ err = "none"
        /\ emit = << >> /\ yielded = 0 /\ wrote = FALSE
        /\ bookmark = get_bookmark(state, s)
        /\ original_search_window_size = 0 /\ search_window_size = 0
        /\ start = 0 /\ end = 0 /\ sync_end = 0
        /\ num_retries = 0 /\ records = << >>
        /\ query = NoQuery /\ response = NoResponse
        /\ covered = {}
        /\ ChildIdle /\ CursorIdle /\ SnapshotIdle /\ RunIdle

NextSnapshot ==
    \/ \E r \in SnapshotRecords("groups") : SnapshotRecord(r)
    \/ \E r \in SnapshotRecords("group_memberships") :
           GroupMembershipsRecord(r)
    \/ SnapshotDone

SpecSnapshot == InitSnapshot /\ [][NextSnapshot]_vars

\* ---- the full-table streams: Tags.sync, SLAPolicies.sync -----------------
\* lines 421-422, 493-494: one turn of the loop over the listing
FullTableRecord ==
    /\ cur \in FullTableStreams /\ pc = "list" /\ yielded < MaxTickets
    /\ emit' = << Empty >> /\ yielded' = yielded + 1
    /\ wrote' = FALSE
    /\ UNCHANGED << value, scanned, runvars, cursorvars, covered, winvars,
                    childvars, cur, state, pc, err, saved >>

\* lines 421, 493: the listing is exhausted
FullTableDone ==
    /\ cur \in FullTableStreams /\ pc = "list"
    /\ pc' = "done"
    /\ Quiet
    /\ UNCHANGED << value, scanned, runvars, cursorvars, covered, winvars,
                    childvars, cur, state, err, yielded, saved >>

InitFullTable ==
    \E s \in FullTableStreams, b0 \in StartBookmarks :
        /\ cur = s
        /\ state = InitialState(b0)
        /\ saved = InitialState(b0)
        /\ pc = "list" /\ err = "none"
        /\ emit = << >> /\ yielded = 0 /\ wrote = FALSE
        /\ ChildIdle /\ CursorIdle /\ SnapshotIdle /\ RunIdle
        /\ WindowIdle

NextFullTable == FullTableRecord \/ FullTableDone

\* ---- every stream's sync, one sync per behaviour -------------------------
InitStreams ==
    InitWindow \/ InitChild \/ InitCursor \/ InitSnapshot \/ InitFullTable

NextStreams ==
    \/ UsersNext
    \/ RatingsNext
    \/ NextChild
    \/ NextCursor
    \/ NextSnapshot
    \/ NextFullTable

SpecStreams == InitStreams /\ [][NextStreams]_vars

\* ---- Stream.update_bookmark called with arbitrary candidates -------------
\* the candidates: empty, or any timestamp around the bookmark
Candidates == {Empty} \cup { Str(t) : t \in 0 .. (MaxTime + 1) }

CallUpdateBookmark(candidate) ==
    /\ pc = "call"
    /\ state' = update_bookmark(state, cur, candidate)
    /\ value' = candidate
    /\ Quiet
    /\ UNCHANGED << cur, pc, err, yielded, saved, winvars, childvars,
                    cursorvars, covered, runvars, scanned >>

InitBookmark ==
    \E s \in IncrementalStreams, b0 \in StartBookmarks :
        /\ cur = s
        /\ state = InitialState(b0)
        /\ saved = InitialState(b0)
        /\ pc = "call" /\ err = "none"
        /\ emit = << >> /\ yielded = 0 /\ wrote = FALSE
        /\ ChildIdle /\ CursorIdle /\ SnapshotIdle /\ RunIdle
        /\ WindowIdle

NextBookmark == \E candidate \in Candidates : CallUpdateBookmark(candidate)

SpecBookmark == InitBookmark /\ [][NextBookmark]_vars

\* ---- do_sync (tap_zendesk/__init__.py) -----------------------------------
\* the streams a catalog of the model selects: one of each kind of sync
CatalogStreams == {"users", "satisfaction_ratings", "ticket_audits",
                   "groups", "tags"}

Distinct(seq) == \A i, j \in 1 .. Len(seq) : i # j => seq[i] # seq[j]

\* catalog.streams: the selected streams, in catalog order
Catalogs ==
    { c \in SeqsUpTo(CatalogStreams, MaxCatalog) : c # << >> /\ Distinct(c) }

\* the exceptions a stream's sync raises (lines 197, 209; 359, 372; 273, 319)
FatalErrorsOf(stream) ==
    CASE stream = "users" -> {"capacity", "consistency"}
      [] stream = "satisfaction_ratings" -> {"assertion", "overflow"}
      [] stream \in {"ticket_audits", "ticket_comments"} -> {"child_fetch"}
      [] OTHER -> {}

\* how a stream's sync may end
SyncOutcomes(stream) == {"none"} \cup FatalErrorsOf(stream)

\* the state a stream's sync leaves: its own bookmark as it found it
\* (advance 0) or later (advance 1)
StateAfter(st, stream, advance) ==
    IF stream \in IncrementalStreams
    THEN [st EXCEPT ![stream] = @ + advance]
    ELSE st

\* sync_stream(state, start_date, instance): whether an exception of
\* instance.sync(state) leaves sync_stream.  It ends that stream's sync and
\* goes no further.
sync_stream_raises(outcome) == FALSE

\* the loop is left after its first turn
RestOfCatalogNone(c) == << >>

\* line 46: for stream in catalog.streams, the turns after this one
RestOfCatalog(c) == Tail(c)

\* lines 46-56: one turn of the loop of do_sync
DoSyncStream(outcome, advance) ==
    /\ pc = "run" /\ catalog # << >>
    /\ outcome \in SyncOutcomes(Head(catalog))
    /\ cur' = Head(catalog)
    /\ state' = StateAfter(state, Head(catalog), advance)
    /\ synced' = Append(synced, [stream |-> Head(catalog), err |-> outcome])
    /\ IF outcome # "none" /\ sync_stream_raises(outcome)
       THEN /\ pc' = "fatal" /\ err' = outcome
            /\ wrote' = FALSE
            /\ UNCHANGED << saved, catalog >>
       ELSE /\ saved' = StateAfter(state, Head(catalog), advance)
            /\ wrote' = TRUE
            /\ catalog' = RestOfCatalog(catalog)
            /\ UNCHANGED << pc, err >>
    /\ emit' = << >>
    /\ UNCHANGED << value, scanned, cursorvars, covered, winvars, childvars, yielded >>

\* line 46: the catalog is exhausted
DoSyncDone ==
    /\ pc = "run" /\ catalog = << >>
    /\ pc' = "done"
    /\ Quiet
    /\ UNCHANGED << value, scanned, runvars, cursorvars, covered, winvars, childvars,
                    cur, state, err, yielded, saved >>

InitRun ==
    \E c \in Catalogs, b0 \in StartBookmarks :
        /\ cur = "none"
        /\ state = InitialState(b0)
        /\ saved = InitialState(b0)
        /\ pc = "run" /\ err = "none"
        /\ emit = << >> /\ yielded = 0 /\ wrote = FALSE
        /\ catalog = c /\ synced = << >>
        /\ ChildIdle /\ CursorIdle /\ SnapshotIdle
        /\ WindowIdle

NextRun ==
    \/ \E outcome \in {"none", "capacity", "consistency", "assertion",
                        "overflow", "child_fetch"}, advance \in 0 .. 1 :
           DoSyncStream(outcome, advance)
    \/ DoSyncDone

SpecRun == InitRun /\ [][NextRun]_vars

(***************************************************************************)
(* C1.  For every incremental stream and every sequence of update_bookmark *)
(* calls with arbitrary candidates (empty, older and equal ones included), *)
(* the stream's bookmark never decreases: after each call the new bookmark *)
(* is at least the old one.                                                *)
(***************************************************************************)
C1_BookmarkNeverDecreases ==
    [][\A s \in IncrementalStreams : state'[s] >= state[s]]_vars

\* an older candidate was passed to a bookmark that had advanced before
C1_Witness ==
    /\ pc = "call"
    /\ ~IsEmpty(value)
    /\ SecondsOf(value) < state[cur]
    /\ state[cur] > saved[cur]

\* ---- the claims about the adaptive-window streams -----------------------
\* the result cap of the stream's endpoint (lines 190, 353)
CapOf(stream) == IF stream = "users" THEN UsersCap ELSE RatingsCap

\* a step that issues a search request and acts on its response
QueryStep == cur \in WindowStreams /\ pc = "loop" /\ InLoop

(***************************************************************************)
(* C2.  In Users.sync (cap 1000) and SatisfactionRatings.sync (cap 50000), *)
(* when a query for window size W returns count > cap and W can still      *)
(* shrink (W > 1), the window size becomes floor(W/2), the start is kept   *)
(* for the next query, no record is emitted, the bookmark is unchanged and *)
(* no checkpoint is written.                                               *)
(***************************************************************************)
C2_OverCapHalvesSameStart ==
    [][ (QueryStep /\ response'.count > CapOf(cur) /\ search_window_size > 1)
        => /\ search_window_size' = search_window_size \div 2
           /\ start' = start
           /\ end' = start + Seconds(search_window_size \div 2)
           /\ pc' = "loop"
           /\ emit' = << >> /\ yielded' = yielded
           /\ state' = state
           /\ wrote' = FALSE /\ saved' = saved ]_vars

\* the scenario: the default window of 2,592,000 s answered with 1500 users
\* against the cap of 1000 is now 1,296,000 s, with the start of the query
C2_Witness ==
    /\ cur = "users" /\ pc = "loop"
    /\ original_search_window_size = DEFAULT_SEARCH_WINDOW_SIZE
    /\ response.count = UsersCap + 500
    /\ search_window_size = 1296000
    /\ query[1] = Strftime(start)
    /\ state = saved

(***************************************************************************)
(* C3.  In Users.sync, if a window's response holds a record before the    *)
(* window start on the first attempt and on each of the 60 retries, the    *)
(* sync raises the consistency error, once: no step follows it.  No record *)
(* of that window has been emitted, the bookmark has not been advanced and *)
(* no checkpoint has been written for it.                                  *)
(***************************************************************************)
C3_ConsistencyErrorOnceNothingEmitted ==
    [][ /\ err = "none"
        /\ (QueryStep /\ cur = "users" /\ response'.count <= UsersCap
              /\ response'.stale /\ num_retries = MaxRetries)
           => (pc' = "fatal" /\ err' = "consistency")
        /\ err' = "consistency"
           => /\ cur = "users" /\ response'.stale
              /\ num_retries = MaxRetries
              /\ emit' = << >> /\ yielded' = 0
              /\ state' = state /\ state' = saved'
              /\ wrote' = FALSE /\ saved' = saved ]_vars

C3_Witness ==
    /\ cur = "users" /\ pc = "fatal" /\ err = "consistency"
    /\ num_retries = MaxRetries /\ response.stale

(***************************************************************************)
(* C8.  In Users.sync and SatisfactionRatings.sync, started with a         *)
(* configured window size of at least 1 second, the window size is at      *)
(* least 1 second in every reachable state.                                *)
(***************************************************************************)
C8_WindowAtLeastOneSecond ==
    cur \in WindowStreams => search_window_size >= 1

(***************************************************************************)
(* C9.  In Users.sync and SatisfactionRatings.sync, when a query returns   *)
(* more results than the cap while the window size is at the one-second    *)
(* floor, the sync ends in a fatal error: it does not halve again, query   *)
(* again, emit or advance the bookmark.                                    *)
(***************************************************************************)
C9_OverCapAtFloorIsFatal ==
    [][ (QueryStep /\ response'.count > CapOf(cur) /\ search_window_size <= 1)
        => /\ pc' = "fatal" /\ err' = "capacity"
           /\ search_window_size' = search_window_size
           /\ emit' = << >>
           /\ state' = state ]_vars

(***************************************************************************)
(* C10.  For every configured window size of at least 1 second and every   *)
(* initial bookmark, if from some point on every query returns a           *)
(* within-cap and consistent result, the window loop of Users.sync and of  *)
(* SatisfactionRatings.sync eventually reaches start >= now minus the      *)
(* safety margin and the sync finishes (unless an earlier over-cap or      *)
(* inconsistent response has already ended it with its error).             *)
(***************************************************************************)
\* a query answered over the cap or with a record before the window start
Disturbed ==
    QueryStep /\ (response'.count > CapOf(cur) \/ response'.stale)

EndedByResponse ==
    pc = "fatal" /\ err \in {"capacity", "consistency", "assertion"}

C10_CalmSyncFinishes ==
    <>[][~Disturbed]_vars => <>((pc = "done" /\ ~InLoop) \/ EndedByResponse)

\* the generator is driven to its end: a step that can be taken is taken
FairWindow == InitWindow /\ [][NextWindow]_vars /\ WF_vars(NextWindow)

(***************************************************************************)
(* C11.  In Users.sync and SatisfactionRatings.sync, every emitted record  *)
(* has a timestamp t with window.start <= t <= window.end for the window   *)
(* in which it is emitted; a returned record outside that inclusive range  *)
(* is never emitted in that window.                                        *)
(***************************************************************************)
\* a step that takes the next record of the window's response
ScanStep ==
    /\ cur \in WindowStreams /\ pc \in {"emit", "scan"}
    /\ records # << >> /\ records' = Tail(records)

C11_EmittedWithinWindow ==
    [][ /\ (cur \in WindowStreams /\ emit' # << >>)
           => /\ ScanStep /\ emit' = << Head(records) >>
              /\ start <= Strptime(emit'[1]) /\ Strptime(emit'[1]) <= end
        /\ (ScanStep /\ ~(/\ start <= Strptime(Head(records))
                           /\ Strptime(Head(records)) <= end))
           => emit' = << >> /\ yielded' = yielded ]_vars

\* of the two records of a window's response, one was emitted and the one
\* after it, later than the window's end, was not
C11_Witness ==
    /\ cur \in WindowStreams /\ pc \in {"emit", "scan"}
    /\ records = << >> /\ yielded = 1 /\ emit = << >>
    /\ ~response.stale

(***************************************************************************)
(* C12.  In Users.sync and SatisfactionRatings.sync, the state is          *)
(* checkpointed (write_state) only after a window has passed the cap check *)
(* and the consistency check and all of its in-range records have been     *)
(* emitted; no checkpoint happens on the halving path, on the retry path,  *)
(* or between two emissions of the same window.                            *)
(***************************************************************************)
C12_CheckpointOnlyAfterWindow ==
    [][ /\ (cur \in WindowStreams /\ (wrote' \/ saved' # saved))
           => /\ pc \in {"emit", "scan"} /\ records = << >>
              /\ response.count <= CapOf(cur) /\ ~response.stale
              /\ wrote' /\ saved' = state' /\ emit' = << >>
        /\ (QueryStep /\ (response'.count > CapOf(cur) \/ response'.stale))
           => ~wrote' /\ saved' = saved
        /\ ScanStep => ~wrote' /\ saved' = saved ]_vars

\* a checkpoint was written after a validated window, and it holds the
\* bookmark that window advanced beyond the one the run began with (which the
\* other streams' entries still hold)
C12_Witness ==
    /\ cur \in WindowStreams /\ pc = "loop" /\ wrote
    /\ response.count = CapOf(cur) /\ ~response.stale
    /\ saved = state /\ saved[cur] > saved["tickets"]

(***************************************************************************)
(* C13.  For Users.sync and SatisfactionRatings.sync, at every checkpoint, *)
(* a fresh run started from the checkpointed state begins its first window *)
(* at a start such that no whole-second timestamp that lies in the run's   *)
(* range but in no validated-and-emitted window is below that start: a     *)
(* restart skips no timestamp that was not already emitted.                *)
(***************************************************************************)
\* the seconds of the run's range that no validated window has covered
Uncovered == RunRange \ covered

\* where a fresh run of the stream begins when it reads the checkpoint
RestartStart == FirstStart(cur, get_bookmark(saved, cur))

C13_RestartSkipsNothing ==
    (cur \in WindowStreams /\ wrote)
        => \A t \in Uncovered : RestartStart <= Strptime(t)

\* a checkpoint that moved the restart point forward while part of the run's
\* range is still to be covered, the restart point being its first second
C13_Witness ==
    /\ cur \in WindowStreams /\ wrote /\ pc = "loop"
    /\ RestartStart > FirstStart(cur, bookmark)
    /\ \E t \in Uncovered : RestartStart = Strptime(t)

(***************************************************************************)
(* C15.  In the streams that tolerate out-of-order results                 *)
(* (satisfaction_ratings, and the snapshot-filtered streams groups,        *)
(* macros, ticket_fields, ticket_forms, group_memberships), the stream's   *)
(* bookmark in the state is not changed while the records of a window or   *)
(* listing are still being scanned; it changes only after all of them have *)
(* been scanned.                                                           *)
(***************************************************************************)
OutOfOrderStreams == {"satisfaction_ratings"} \cup SnapshotStreams

C15_BookmarkNotChangedMidScan ==
    [][ (cur \in OutOfOrderStreams /\ state'[cur] # state[cur])
        => records' = << >> ]_vars

(***************************************************************************)
(* C16.  On a consistency violation in Users.sync with retries remaining,  *)
(* the next query is issued with identical start, end and window size,     *)
(* with no emission, no bookmark change and no checkpoint in between; at   *)
(* most 60 retries are made for a window; and after a window is validated  *)
(* the retry counter is zero when the next window begins.                  *)
(***************************************************************************)
C16_RetrySameWindowBounded ==
    [][ /\ (QueryStep /\ cur = "users" /\ response'.count <= UsersCap
               /\ response'.stale /\ num_retries < MaxRetries)
           => /\ start' = start /\ end' = end
              /\ search_window_size' = search_window_size
              /\ pc' = "loop" /\ InLoop'
              /\ num_retries' = num_retries + 1
              /\ emit' = << >> /\ yielded' = yielded
              /\ state' = state
              /\ wrote' = FALSE /\ saved' = saved
        /\ (QueryStep /\ cur = "users" /\ num_retries > 0
               /\ response.stale /\ response.count <= UsersCap)
           => query' = query
        /\ (cur = "users") => (num_retries' <= MaxRetries)
        /\ (cur = "users" /\ pc = "emit" /\ pc' = "loop")
           => num_retries' = 0 ]_vars

\* the sixtieth retry of a window has been made and its query is to be
\* issued again
C16_Witness ==
    /\ cur = "users" /\ pc = "loop" /\ InLoop
    /\ num_retries = MaxRetries /\ response.stale
    /\ query = << parsed_start, UsersParsedEnd >>
    /\ state = saved /\ yielded = 0

(***************************************************************************)
(* C17.  In Users.sync and SatisfactionRatings.sync, after a validated     *)
(* window the window size is doubled exactly when it is at or below half   *)
(* the originally configured size, and in every reachable state the window *)
(* size is at most the originally configured size.                         *)
(***************************************************************************)
\* a step that ends a validated window
WindowEndStep ==
    cur \in WindowStreams /\ pc \in {"emit", "scan"} /\ records = << >>

C17_DoublesUpToOriginal ==
    [][ /\ WindowEndStep
           => search_window_size' =
                  IF 2 * search_window_size <= original_search_window_size
                  THEN 2 * search_window_size
                  ELSE search_window_size
        /\ (cur \in WindowStreams)
           => /\ search_window_size <= original_search_window_size
              /\ search_window_size' <= original_search_window_size
              /\ original_search_window_size' = original_search_window_size
      ]_vars

\* a window of 3 s was halved to 1 s and, its window validated, doubled to
\* 2 s, where it stays: 2 s is above half of 3 s
C17_Witness ==
    /\ cur \in WindowStreams /\ pc = "loop" /\ wrote
    /\ original_search_window_size = 3 /\ search_window_size = 2

(***************************************************************************)
(* C18.  Every search query issued by Users.sync and                       *)
(* SatisfactionRatings.sync has an upper bound no later than the sync end  *)
(* fixed at the start of the sync (now minus the one-minute safety         *)
(* margin), for every window size and every sequence of halvings and       *)
(* doublings.                                                              *)
(***************************************************************************)
C18_QueryEndsBySyncEnd ==
    [][ (cur \in WindowStreams)
        => /\ sync_end' = sync_end
           /\ (query' # NoQuery) => (Strptime(query'[2]) <= sync_end) ]_vars

\* the query of a window that reaches beyond the sync end was issued up to
\* the sync end (and is about to be retried)
C18_Witness ==
    /\ cur = "users" /\ pc = "loop" /\ num_retries = 1 /\ response.stale
    /\ Strftime(end) > Strftime(sync_end)
    /\ query = << Strftime(start), Strftime(sync_end) >>

\* ---- the claims about the cursor streams ---------------------------------
(***************************************************************************)
(* C19.  Within a single run, a cursor-incremental stream (tickets,        *)
(* organizations) emits each record id at most once, even when the         *)
(* incremental listing returns the same id more than once because of       *)
(* overlapping pages.                                                      *)
(***************************************************************************)
EmissionsOf(id) == Cardinality({ i \in 1 .. Len(emitted) : emitted[i] = id })

C19_EachIdEmittedOnce ==
    cur \in CursorStreams => \A id \in TicketIds : EmissionsOf(id) <= 1

(***************************************************************************)
(* C20.  In the cursor-incremental streams (Organizations.sync,            *)
(* Tickets.sync), when a record with timestamp t beyond the current        *)
(* bookmark is processed, the bookmark immediately after that record is    *)
(* exactly t + 1 second: one second, and only one, is added on advance.    *)
(***************************************************************************)
C20_CursorBookmarkIsRecordPlusOne ==
    [][ (cur \in CursorStreams /\ pc = "list" /\ listed' # listed
           /\ record'.t > state[cur])
        => state'[cur] = record'.t + 1 ]_vars

(***************************************************************************)
(* C23.  In Users.sync and SatisfactionRatings.sync, the window start      *)
(* never moves backward: across every iteration of the window loop         *)
(* (halving, retry or advance after a validated window) the new start is   *)
(* greater than or equal to the previous start.                            *)
(***************************************************************************)
C23_StartNeverMovesBackward ==
    [][ (cur \in WindowStreams) => (start' >= start) ]_vars

(***************************************************************************)
(* C24.  In a run of Users.sync or SatisfactionRatings.sync that finishes  *)
(* normally, the validated windows leave no gap: every whole-second        *)
(* timestamp from the run's first window start up to the sync end lies in  *)
(* the inclusive emit range of at least one validated window, so a record  *)
(* the endpoint returns consistently for its timestamp is emitted at least *)
(* once.                                                                   *)
(***************************************************************************)
C24_FinishedRunLeavesNoGap ==
    (cur \in WindowStreams /\ pc = "done") => Uncovered = {}

\* a run of more than one window, one of them halved, has finished and has
\* covered its range
C24_Witness ==
    /\ cur \in WindowStreams /\ pc = "done"
    /\ search_window_size < original_search_window_size
    /\ Cardinality(covered) >= 3 /\ Uncovered = {}

\* ---- the claim about the snapshot streams --------------------------------
(***************************************************************************)
(* C22.  In a snapshot-filtered stream (groups, macros, ticket_fields,     *)
(* ticket_forms), after a full scan of a listing that contains at least    *)
(* one record newer than the initial bookmark, the final bookmark is the   *)
(* maximum timestamp seen plus one second, and it is the same for every    *)
(* order in which the listing returns the same set of records.             *)
(***************************************************************************)
\* the seconds of the updated_at values scanned
ScannedTimes == { SecondsOf(scanned[i]) : i \in 1 .. Len(scanned) }

MaxOf(S) == CHOOSE m \in S : \A x \in S : x <= m

C22_FinalBookmarkIsMaxSeenPlusOne ==
    (/\ cur \in {"groups", "macros", "ticket_fields", "ticket_forms"}
     /\ pc = "done"
     /\ \E t \in ScannedTimes : Strptime(t) > bookmark)
        => state[cur] = MaxOf(ScannedTimes) + 1

\* ---- the claim about every stream ----------------------------------------
(***************************************************************************)
(* C21.  A stream's sync changes only the state entry under its own stream *)
(* name and replication key: the bookmarks of all other streams are        *)
(* unchanged by it, including between the parent stream tickets and the    *)
(* child streams ticket_audits, ticket_comments and ticket_metrics, and    *)
(* the full-table streams (tags, sla_policies) change no bookmark at all.  *)
(***************************************************************************)
C21_OnlyOwnBookmarkChanges ==
    [][ /\ cur' = cur
        /\ DOMAIN state' = IncrementalStreams
        /\ \A s \in IncrementalStreams : (s # cur) => (state'[s] = state[s])
        /\ (cur \in FullTableStreams) => (state' = state) ]_vars

\* a child stream has pushed a record and advanced its own bookmark; that of
\* its parent stream and those of the other child streams are as they were
C21_Witness ==
    /\ cur = "ticket_audits" /\ pc = "push" /\ emit # << >>
    /\ state["ticket_audits"] > saved["ticket_audits"]
    /\ \A s \in IncrementalStreams \ {"ticket_audits"} : state[s] = saved[s]

\* ---- the claim about do_sync ---------------------------------------------
(***************************************************************************)
(* C14.  When one stream's sync ends in a fatal error (capacity exceeded   *)
(* or consistency violation), do_sync aborts only that stream: the streams *)
(* that follow it in catalog order are still synced in the same run.       *)
(***************************************************************************)
StreamsOf(entries) == [i \in 1 .. Len(entries) |-> entries[i].stream]

Failed(entries) == \E i \in 1 .. Len(entries) : entries[i].err # "none"

C4_DeletedNeverFetched ==
    cur \in ChildStreams
        => \A i \in 1 .. Len(fetches) : fetches[i].status # "deleted"

(***************************************************************************)
(* C5.  In every child-expansion stream, within one run, for any listing   *)
(* in which the same ticket id appears more than once, the child fetch for *)
(* that id is issued at most once.                                         *)
(***************************************************************************)
FetchesOf(id) == Cardinality({ i \in 1 .. Len(fetches) : fetches[i].id = id })

C5_FetchedAtMostOnce ==
    cur \in ChildStreams => \A id \in TicketIds : FetchesOf(id) <= 1

\* the listing returned an id twice, the run is over, and it was fetched once
C5_Witness ==
    /\ cur \in ChildStreams /\ pc = "done"
    /\ \E i, j \in 1 .. Len(listed) :
         i < j /\ listed[i] = listed[j] /\ FetchesOf(listed[i]) = 1

(***************************************************************************)
(* C6.  When a child record is emitted for a non-deleted parent ticket     *)
(* whose generated_timestamp t is beyond the child stream's bookmark, the  *)
(* child stream's bookmark becomes exactly t + 1 second.                   *)
(***************************************************************************)
C6_ChildBookmarkIsParentPlusOne ==
    [][ (cur \in ChildStreams /\ pc = "push" /\ children' < children
           /\ ticket.status # "deleted"
           /\ ticket.generated_timestamp > state[cur])
        => state'[cur] = ticket.generated_timestamp + 1 ]_vars

(***************************************************************************)
(* C7.  In every child-expansion stream, when the child fetch for one      *)
(* parent fails, the sync does not abort: the failure is handled locally   *)
(* and the loop continues with the next parent of the listing.             *)
(***************************************************************************)
C7_FetchFailureNeverAborts ==
    cur \in ChildStreams => ~(pc = "fatal" /\ err = "child_fetch")
====
